---------------------------- MODULE Spec2Model ----------------------------
(***************************************************************************)
(* Piecewise-cubic interpolation of sjavis/pyutils: the uniform-only       *)
(* CubicSpline of src/CubicSpline.py and the non-uniform-capable           *)
(* CubicSpline of src/cubic_spline.py.                                     *)
(*                                                                         *)
(* Numbers are exact rationals <<num, den>> (den > 0, lowest terms): the   *)
(* float64 arithmetic of numpy is modelled by the real arithmetic it       *)
(* approximates, so "equal" below is the spec's "equal within tolerance".  *)
(* Array indices of the source are 0-based; sequences here are 1-based, so *)
(* the source's a[i] is written a[i + 1].                                  *)
(***************************************************************************)
EXTENDS Integers, Sequences, FiniteSets

\* ---------------------------------------------------------------- bounds
MaxN == 4        \* most points of an input array
MaxM == 2        \* most coordinates per point of a 2-d input array
MaxVal == 1      \* coordinates are drawn from 0..MaxVal
MaxDist == 2     \* distances are drawn from 1..MaxDist
MaxQDen == 3     \* scalar queries are k/d with d in 1..MaxQDen
MaxQLen == 2     \* longest sequence query
MaxSamples == 3  \* interpolate(n) is called with n in 0..MaxSamples
MaxCalls == 2    \* at most MaxCalls fn and interpolate calls on one object

\* ------------------------------------------------- exact rational numbers
Abs(x) == IF x < 0 THEN -x ELSE x

RECURSIVE GCD(_, _)
GCD(a, b) == IF b = 0 THEN a ELSE GCD(b, a % b)

\* n/d in lowest terms with a positive denominator (d # 0)
Rat(n, d) ==
    LET g == GCD(Abs(n), Abs(d))
        s == IF d < 0 THEN -1 ELSE 1
    IN  <<(s * n) \div g, (s * d) \div g>>

Zero == <<0, 1>>
One == <<1, 1>>
FromInt(k) == <<k, 1>>

\* Sums and products cancel common factors before they multiply, so that the
\* intermediate integers stay small
RAdd(a, b) ==
    IF a[1] = 0 THEN b ELSE IF b[1] = 0 THEN a
    ELSE LET g == GCD(a[2], b[2])
         IN  Rat(a[1] * (b[2] \div g) + b[1] * (a[2] \div g), (a[2] \div g) * b[2])
RNeg(a) == <<-a[1], a[2]>>
RSub(a, b) == RAdd(a, RNeg(b))
RMul(a, b) ==
    IF a[1] = 0 \/ b[1] = 0 THEN Zero
    ELSE LET g == GCD(Abs(a[1]), b[2])
             h == GCD(Abs(b[1]), a[2])
         IN  Rat((a[1] \div g) * (b[1] \div h), (a[2] \div h) * (b[2] \div g))
\* a / b for b # 0
RDiv(a, b) == IF b[1] < 0 THEN RMul(a, <<-b[2], -b[1]>>) ELSE RMul(a, <<b[2], b[1]>>)
RLe(a, b) == a[1] * b[2] <= b[1] * a[2]
RLt(a, b) == a[1] * b[2] < b[1] * a[2]
RScale(k, a) == RMul(FromInt(k), a)

\* floor and truncation toward zero of a rational, as integers
RFloor(a) == a[1] \div a[2]
RTrunc(a) == IF a[1] >= 0 THEN a[1] \div a[2] ELSE -((-a[1]) \div a[2])

\* The first n values of the function f, as a sequence
RECURSIVE Force(_, _)
Force(f, n) == IF n = 0 THEN <<>> ELSE Append(Force(f, n - 1), f[n])

RECURSIVE RSum(_, _)
RSum(s, n) == IF n = 0 THEN Zero ELSE RAdd(RSum(s, n - 1), s[n])

\* ------------------------------------------------------- numpy.linalg.inv
\* First row r in k..n whose entry in column k is not zero; 0 when none is
RECURSIVE PivotRow(_, _, _, _)
PivotRow(A, k, r, n) ==
    IF r > n THEN 0
    ELSE IF A[r][k] # Zero THEN r
    ELSE PivotRow(A, k, r + 1, n)

\* Gauss-Jordan elimination of the n x 2n matrix A from column k on
RECURSIVE GaussJordan(_, _, _)
GaussJordan(A, k, n) ==
    IF k > n THEN [ok |-> TRUE, A |-> A]
    ELSE LET p == PivotRow(A, k, k, n) IN
         IF p = 0 THEN [ok |-> FALSE, A |-> A]
         ELSE LET S == Force([r \in 1..n |-> IF r = k THEN A[p]
                                             ELSE IF r = p THEN A[k]
                                             ELSE A[r]], n)
                  piv == S[k][k]
                  prow == Force([c \in 1..(2 * n) |-> RDiv(S[k][c], piv)], 2 * n)
                  B == Force([r \in 1..n |->
                              IF r = k THEN prow
                              ELSE IF S[r][k] = Zero THEN S[r]
                              ELSE Force([c \in 1..(2 * n) |->
                                          RSub(S[r][c], RMul(S[r][k], prow[c]))],
                                         2 * n)], n)
              IN  GaussJordan(B, k + 1, n)

\* np.linalg.inv(mat): [ok |-> TRUE, inv |-> the inverse], or [ok |-> FALSE]
\* for a singular matrix (numpy raises LinAlgError)
Inv(mat, n) ==
    LET aug == Force([r \in 1..n |->
                      Force([c \in 1..(2 * n) |->
                             IF c <= n THEN mat[r][c]
                             ELSE IF c - n = r THEN One ELSE Zero], 2 * n)], n)
        g == GaussJordan(aug, 1, n)
    IN  IF g.ok
        THEN [ok |-> TRUE,
              inv |-> Force([r \in 1..n |->
                             Force([c \in 1..n |-> g.A[r][n + c]], n)], n)]
        ELSE [ok |-> FALSE, inv |-> <<>>]

\* np.matmul(inv, row)
RECURSIVE Dot(_, _, _)
Dot(a, b, n) == IF n = 0 THEN Zero ELSE RAdd(Dot(a, b, n - 1), RMul(a[n], b[n]))

MatMul(inv, row, n) == Force([r \in 1..n |-> Dot(inv[r], row, n)], n)


\* ------------------------------------------------------- shared array code
\* points = np.array(points); a rank-1 array gets a second axis of length 1
Points2D(pts) ==
    IF pts.rank = 1
    THEN Force([i \in 1..Len(pts.data) |-> <<pts.data[i]>>], Len(pts.data))
    ELSE pts.data

ShapeN(pts) == Len(pts.data)
ShapeM(pts) == IF pts.rank = 1 THEN 1 ELSE Len(pts.data[1])

\* points.T[i_d]: coordinate i_d (0-based) of every point
Dim(p2, i_d, n) == Force([i \in 1..n |-> FromInt(p2[i][i_d + 1])], n)

\* coef[s][j] is the source's coef[s-1, j-1, :], from the per-dimension tables
CoefTable(byDim, n, m) ==
    Force([s \in 1..(n - 1) |-> Force([j \in 1..m |-> byDim[j][s]], m)], n - 1)

NoObject == [exists |-> FALSE]
\* An exception of type e raised at source line `at`: no object is constructed
Raise(e, at) == [exc |-> e, at |-> at, obj |-> NoObject]

\* ----------------------------------------- src/cubic_spline.py: __init__
Ones(n) == Force([i \in 1..n |-> 1], n)

RECURSIVE IntSum(_, _)
IntSum(s, n) == IF n = 0 THEN 0 ELSE IntSum(s, n - 1) + s[n]

\* Mutant of Dt: the distances are divided by their largest value
Dt_ByMax(dist) ==
    LET n == Len(dist)
        top == CHOOSE x \in {dist[i] : i \in 1..n} : \A i \in 1..n : dist[i] <= x
    IN  Force([i \in 1..n |-> Rat(dist[i], top)], n)

\* self.dt = np.array(distances) / np.sum(distances)
Dt(dist) ==
    LET n == Len(dist)
        tot == IntSum(dist, n)
    IN  Force([i \in 1..n |-> Rat(dist[i], tot)], n)

\* Mutant of T0: the cumulative sums without the inserted 0
T0_NoInsert(dt) == Force([k \in 1..Len(dt) |-> RSum(dt, k)], Len(dt))

\* self.t0 = np.insert(np.cumsum(self.dt[:-1]), 0, 0)
T0(dt) == Force([k \in 1..Len(dt) |-> RSum(dt, k - 1)], Len(dt))

\* Row r (1-based) of mat: the endpoint constraints, then the other ones
MatRowNew(r, n, bc, uniform, dt) ==
    Force([c \in 1..n |->
        IF r = 1 THEN
            IF bc = "natural" THEN
                IF uniform THEN (IF c = 1 THEN FromInt(2) ELSE IF c = 2 THEN One ELSE Zero)
                ELSE (IF c = 1 THEN RDiv(FromInt(2), dt[1])
                      ELSE IF c = 2 THEN RDiv(One, dt[1]) ELSE Zero)
            ELSE (IF c = 1 THEN One ELSE IF c = 3 THEN FromInt(-1) ELSE Zero)
        ELSE IF r = n THEN
            IF bc = "natural" THEN
                IF uniform THEN (IF c = n - 1 THEN One ELSE IF c = n THEN FromInt(2) ELSE Zero)
                ELSE (IF c = n - 1 THEN RDiv(One, dt[n - 1])
                      ELSE IF c = n THEN RDiv(FromInt(2), dt[n - 1]) ELSE Zero)
            ELSE (IF c = n - 2 THEN FromInt(-1) ELSE IF c = n THEN One ELSE Zero)
        ELSE
            IF uniform THEN (IF c = r - 1 \/ c = r + 1 THEN One
                             ELSE IF c = r THEN FromInt(4) ELSE Zero)
            ELSE LET h0 == RDiv(One, dt[r - 1])
                     h1 == RDiv(One, dt[r])
                 IN  IF c = r - 1 THEN h0
                     ELSE IF c = r THEN RScale(2, RAdd(h0, h1))
                     ELSE IF c = r + 1 THEN h1 ELSE Zero], n)

MatNew(n, bc, uniform, dt) ==
    Force([r \in 1..n |-> MatRowNew(r, n, bc, uniform, dt)], n)

\* Mutant of RowNaturalNew: the non-uniform right-hand sides are divided by
\* dt instead of dt**2
RowNaturalNew_NoSquare(dim, n, uniform, dt, first) ==
    IF uniform
    THEN IF first THEN RScale(3, RSub(dim[2], dim[1]))
         ELSE RScale(3, RSub(dim[n], dim[n - 1]))
    ELSE IF first
         THEN RDiv(RScale(3, RSub(dim[2], dim[1])), dt[1])
         ELSE RDiv(RScale(3, RSub(dim[n], dim[n - 1])), dt[n - 1])

\* row[0] and row[-1] for bc_type 'natural'
RowNaturalNew(dim, n, uniform, dt, first) ==
    IF uniform
    THEN IF first THEN RScale(3, RSub(dim[2], dim[1]))
         ELSE RScale(3, RSub(dim[n], dim[n - 1]))
    ELSE IF first
         THEN RDiv(RScale(3, RSub(dim[2], dim[1])), RMul(dt[1], dt[1]))
         ELSE RDiv(RScale(3, RSub(dim[n], dim[n - 1])), RMul(dt[n - 1], dt[n - 1]))

\* Mutant of RowDEqualNew: row[-1] adds 4*dim[-2] instead of subtracting it
RowDEqualNew_SignSlip(dim, n, first) ==
    IF first
    THEN RSub(RSub(RScale(4, dim[2]), RScale(2, dim[1])), RScale(2, dim[3]))
    ELSE RAdd(RAdd(RScale(2, dim[n]), RScale(2, dim[n - 2])), RScale(4, dim[n - 1]))

\* row[0] and row[-1] for bc_type 'd_equal'
RowDEqualNew(dim, n, first) ==
    IF first
    THEN RSub(RSub(RScale(4, dim[2]), RScale(2, dim[1])), RScale(2, dim[3]))
    ELSE RSub(RAdd(RScale(2, dim[n]), RScale(2, dim[n - 2])), RScale(4, dim[n - 1]))

\* row[i] for the other constraints (r = i + 1)
\* Mutant of RowInteriorNew: h0 and h1 enter the right-hand side unsquared
RowInteriorNew_NoSquare(dim, r, uniform, dt) ==
    IF uniform THEN RScale(3, RSub(dim[r + 1], dim[r - 1]))
    ELSE LET h0 == RDiv(One, dt[r - 1])
             h1 == RDiv(One, dt[r])
         IN  RAdd(RMul(RScale(3, RSub(dim[r], dim[r - 1])), h0),
                  RMul(RScale(3, RSub(dim[r + 1], dim[r])), h1))

RowInteriorNew(dim, r, uniform, dt) ==
    IF uniform THEN RScale(3, RSub(dim[r + 1], dim[r - 1]))
    ELSE LET h0 == RDiv(One, dt[r - 1])
             h1 == RDiv(One, dt[r])
         IN  RAdd(RMul(RScale(3, RSub(dim[r], dim[r - 1])), RMul(h0, h0)),
                  RMul(RScale(3, RSub(dim[r + 1], dim[r])), RMul(h1, h1)))

RowNew(dim, n, bc, uniform, dt) ==
    Force([r \in 1..n |->
        IF r = 1 \/ r = n
        THEN IF bc = "natural" THEN RowNaturalNew(dim, n, uniform, dt, r = 1)
             ELSE RowDEqualNew(dim, n, r = 1)
        ELSE RowInteriorNew(dim, r, uniform, dt)], n)

\* Mutant of CoefUniformNew: the last slope enters the cubic term with the wrong sign
CoefUniformNew_SignSlip(dim, derivs, s) ==
    << dim[s],
       derivs[s],
       RSub(RSub(RScale(3, RSub(dim[s + 1], dim[s])), RScale(2, derivs[s])),
            derivs[s + 1]),
       RSub(RAdd(RScale(2, RSub(dim[s], dim[s + 1])), derivs[s]), derivs[s + 1]) >>

\* coef[s-1, i_d, :] when self.uniform
CoefUniformNew(dim, derivs, s) ==
    << dim[s],
       derivs[s],
       RSub(RSub(RScale(3, RSub(dim[s + 1], dim[s])), RScale(2, derivs[s])),
            derivs[s + 1]),
       RAdd(RAdd(RScale(2, RSub(dim[s], dim[s + 1])), derivs[s]), derivs[s + 1]) >>

\* Mutant of CoefNonUniformNew: the weights of the two slopes in the quadratic
\* term are swapped
CoefNonUniformNew_SwappedSlopes(dim, derivs, dt, s) ==
    << dim[s],
       RMul(derivs[s], dt[s]),
       RSub(RScale(3, RSub(dim[s + 1], dim[s])),
            RMul(RAdd(derivs[s], RScale(2, derivs[s + 1])), dt[s])),
       RAdd(RScale(2, RSub(dim[s], dim[s + 1])),
            RMul(RAdd(derivs[s], derivs[s + 1]), dt[s])) >>

\* Mutant of CoefNonUniformNew: the slope is not scaled by the segment length
CoefNonUniformNew_Unscaled(dim, derivs, dt, s) ==
    << dim[s],
       derivs[s],
       RSub(RScale(3, RSub(dim[s + 1], dim[s])),
            RMul(RAdd(RScale(2, derivs[s]), derivs[s + 1]), dt[s])),
       RAdd(RScale(2, RSub(dim[s], dim[s + 1])),
            RMul(RAdd(derivs[s], derivs[s + 1]), dt[s])) >>

\* coef[s-1, i_d, :] when distances were given
CoefNonUniformNew(dim, derivs, dt, s) ==
    << dim[s],
       RMul(derivs[s], dt[s]),
       RSub(RScale(3, RSub(dim[s + 1], dim[s])),
            RMul(RAdd(RScale(2, derivs[s]), derivs[s + 1]), dt[s])),
       RAdd(RScale(2, RSub(dim[s], dim[s + 1])),
            RMul(RAdd(derivs[s], derivs[s + 1]), dt[s])) >>

\* One pass of the loop over points.T: the coefficients of every segment
DimCoefNew(dim, n, bc, uniform, dt, inv) ==
    LET derivs == MatMul(inv, RowNew(dim, n, bc, uniform, dt), n)
    IN  Force([s \in 1..(n - 1) |->
               IF uniform THEN CoefUniformNew(dim, derivs, s)
               ELSE CoefNonUniformNew(dim, derivs, dt, s)], n - 1)

NoError == [exc |-> "none", at |-> 0]

\* Mutant of InitCheckNew: an unknown bc_type is rejected by an assert
InitCheckNew_BcAsserted(n, dists, bc) ==
    IF dists.given /\ ~(Len(dists.val) = n - 1) THEN [exc |-> "AssertionError", at |-> 55]
    ELSE IF bc = "natural" THEN NoError
    ELSE IF bc = "d_equal" THEN
        IF ~(n > 3) THEN [exc |-> "AssertionError", at |-> 78]
        ELSE IF dists.given THEN [exc |-> "AssertionError", at |-> 79]
        ELSE NoError
    ELSE [exc |-> "AssertionError", at |-> 85]

\* Mutant of InitCheckNew: the length of distances is compared with N
InitCheckNew_LengthOffByOne(n, dists, bc) ==
    IF dists.given /\ ~(Len(dists.val) = n) THEN [exc |-> "AssertionError", at |-> 55]
    ELSE IF bc = "natural" THEN NoError
    ELSE IF bc = "d_equal" THEN
        IF ~(n > 3) THEN [exc |-> "AssertionError", at |-> 78]
        ELSE IF dists.given THEN [exc |-> "AssertionError", at |-> 79]
        ELSE NoError
    ELSE [exc |-> "ValueError", at |-> 85]

\* Mutant of InitCheckNew: 'd_equal' does not assert self.uniform
InitCheckNew_NoUniformAssert(n, dists, bc) ==
    IF dists.given /\ ~(Len(dists.val) = n - 1) THEN [exc |-> "AssertionError", at |-> 55]
    ELSE IF bc = "natural" THEN NoError
    ELSE IF bc = "d_equal" THEN
        IF ~(n > 3) THEN [exc |-> "AssertionError", at |-> 78]
        ELSE NoError
    ELSE [exc |-> "ValueError", at |-> 85]

\* The assert and raise statements of __init__ in the order they are met:
\* the length of distances (line 55), then in the first pass of the loop over
\* points.T the two asserts of 'd_equal' (lines 78, 79) or the ValueError of
\* an unknown bc_type (line 85).  self.uniform is `distances is None`.
InitCheckNew(n, dists, bc) ==
    IF dists.given /\ ~(Len(dists.val) = n - 1) THEN [exc |-> "AssertionError", at |-> 55]
    ELSE IF bc = "natural" THEN NoError
    ELSE IF bc = "d_equal" THEN
        IF ~(n > 3) THEN [exc |-> "AssertionError", at |-> 78]
        ELSE IF dists.given THEN [exc |-> "AssertionError", at |-> 79]
        ELSE NoError
    ELSE [exc |-> "ValueError", at |-> 85]

\* CubicSpline(points, distances, bc_type) of cubic_spline.py
BuildNew(pts, dists, bc) ==
    LET p2 == Points2D(pts)
        n == ShapeN(pts)
        m == ShapeM(pts)
        uniform == ~dists.given
        chk == InitCheckNew(n, dists, bc)
    IN  IF chk.exc # "none" THEN Raise(chk.exc, chk.at)
        ELSE LET dt == Dt(IF dists.given THEN dists.val ELSE Ones(n - 1))
                 t0 == T0(dt)
                 iv == Inv(MatNew(n, bc, uniform, dt), n)
             IN  IF ~iv.ok THEN Raise("LinAlgError", 98)
                 ELSE [exc |-> "none", at |-> 0,
                       obj |-> [N |-> n, M |-> m, bc_type |-> bc,
                                uniform |-> uniform, dt |-> dt, t0 |-> t0,
                                coef |-> CoefTable(
                                    Force([j \in 1..m |->
                                           DimCoefNew(Dim(p2, j - 1, n), n, bc,
                                                      uniform, dt, iv.inv)], m),
                                    n, m)]]


\* ------------------------------------------- src/CubicSpline.py: __init__
MatRowOld(r, n, bc) ==
    Force([c \in 1..n |->
        IF r = 1 THEN
            IF bc = "natural"
            THEN (IF c = 1 THEN FromInt(2) ELSE IF c = 2 THEN One ELSE Zero)
            ELSE (IF c = 1 THEN One ELSE IF c = 3 THEN FromInt(-1) ELSE Zero)
        ELSE IF r = n THEN
            IF bc = "natural"
            THEN (IF c = n - 1 THEN One ELSE IF c = n THEN FromInt(2) ELSE Zero)
            ELSE (IF c = n - 2 THEN FromInt(-1) ELSE IF c = n THEN One ELSE Zero)
        ELSE (IF c = r - 1 \/ c = r + 1 THEN One
              ELSE IF c = r THEN FromInt(4) ELSE Zero)], n)

MatOld(n, bc) == Force([r \in 1..n |-> MatRowOld(r, n, bc)], n)

RowOld(dim, n, bc) ==
    Force([r \in 1..n |->
        IF r = 1 THEN
            IF bc = "natural" THEN RSub(RScale(3, dim[2]), RScale(3, dim[1]))
            ELSE RSub(RSub(RScale(4, dim[2]), RScale(2, dim[1])), RScale(2, dim[3]))
        ELSE IF r = n THEN
            IF bc = "natural" THEN RSub(RScale(3, dim[n]), RScale(3, dim[n - 1]))
            ELSE RSub(RAdd(RScale(2, dim[n]), RScale(2, dim[n - 2])),
                      RScale(4, dim[n - 1]))
        ELSE RSub(RScale(3, dim[r + 1]), RScale(3, dim[r - 1]))], n)

CoefOld(dim, derivs, s) ==
    << dim[s],
       derivs[s],
       RSub(RSub(RScale(3, RSub(dim[s + 1], dim[s])), RScale(2, derivs[s])),
            derivs[s + 1]),
       RAdd(RAdd(RScale(2, RSub(dim[s], dim[s + 1])), derivs[s]), derivs[s + 1]) >>

DimCoefOld(dim, n, bc, inv) ==
    LET derivs == MatMul(inv, RowOld(dim, n, bc), n)
    IN  Force([s \in 1..(n - 1) |-> CoefOld(dim, derivs, s)], n - 1)

\* The raise statements of __init__ in the order they are met: the values of
\* mat[0,0:3] that do not fit a row of two (line 63), the ValueError of an
\* unknown bc_type (line 68)
InitCheckOld(n, bc) ==
    IF bc = "natural" THEN NoError
    ELSE IF bc = "d_equal" THEN
        IF n < 3 THEN [exc |-> "ValueError", at |-> 63] ELSE NoError
    ELSE [exc |-> "ValueError", at |-> 68]

\* CubicSpline(points, bc_type) of CubicSpline.py.  With 'd_equal' the three
\* values of mat[0,0:3] do not fit a row of two (ValueError), and for N = 3
\* the first and last rows are opposite, so mat is singular (LinAlgError).
BuildOld(pts, bc) ==
    LET p2 == Points2D(pts)
        n == ShapeN(pts)
        m == ShapeM(pts)
        chk == InitCheckOld(n, bc)
    IN  IF chk.exc # "none" THEN Raise(chk.exc, chk.at)
        ELSE LET iv == Inv(MatOld(n, bc), n)
             IN  IF ~iv.ok THEN Raise("LinAlgError", 75)
                 ELSE [exc |-> "none", at |-> 0,
                       obj |-> [N |-> n, M |-> m, bc_type |-> bc,
                                coef |-> CoefTable(
                                    Force([j \in 1..m |->
                                           DimCoefOld(Dim(p2, j - 1, n), n, bc,
                                                      iv.inv)], m),
                                    n, m)]]

\* ------------------------------------------------------------ evaluation
\* coef[i,:,0] + coef[i,:,1]*ti + coef[i,:,2]*ti**2 + coef[i,:,3]*ti**3 for
\* one query: c is coef[i] (one <<c0, c1, c2, c3>> per dimension)
Cubic(c, ti, m) ==
    Force([j \in 1..m |->
           RAdd(RAdd(RAdd(c[j][1], RMul(c[j][2], ti)),
                     RMul(c[j][3], RMul(ti, ti))),
                RMul(c[j][4], RMul(ti, RMul(ti, ti))))], m)

\* if (self.M == 1): interpolation = interpolation[:,0]
\* if (t.size == 1): interpolation = interpolation[0]
Collapse(interp, size, m) ==
    LET a == IF m = 1
             THEN [shape |-> <<size>>,
                   val |-> Force([q \in 1..size |-> interp[q][1]], size)]
             ELSE [shape |-> <<size, m>>, val |-> interp]
    IN  IF size = 1 THEN [shape |-> Tail(a.shape), val |-> a.val[1]] ELSE a

NoReturn == [shape |-> <<>>, val |-> Zero]
\* An exception of type e raised at source line `at`: nothing is returned
FnRaise(e, at) == [exc |-> e, at |-> at, i |-> <<>>, ti |-> <<>>, ret |-> NoReturn]

\* np.argwhere(t_val >= self.t0)[-1]: the last 0-based index k of t0 with
\* t_val >= t0[k], looked for from index k down; -1 when there is none
RECURSIVE LastAtOrBelow(_, _, _)
LastAtOrBelow(t_val, t0, k) ==
    IF k < 0 THEN -1
    ELSE IF RLe(t0[k + 1], t_val) THEN k
    ELSE LastAtOrBelow(t_val, t0, k - 1)

\* Mutant of SegmentNew: the last index with t_val > t0[k]
RECURSIVE LastBelow(_, _, _)
LastBelow(t_val, t0, k) ==
    IF k < 0 THEN -1
    ELSE IF RLt(t0[k + 1], t_val) THEN k
    ELSE LastBelow(t_val, t0, k - 1)

SegmentNew_Strict(t_val, t0) == LastBelow(t_val, t0, Len(t0) - 1)

SegmentNew(t_val, t0) == LastAtOrBelow(t_val, t0, Len(t0) - 1)

\* What fn of cubic_spline.py leaves in the caller's array t: `t = np.array(t)`
\* rebinds the local name to a copy, and i, ti, interpolation are new arrays
CallerArrayNew(t) == t

\* What fn of cubic_spline.py leaves in self: it reads self.t0, self.dt,
\* self.coef, self.M and assigns no attribute
SelfAfterFnNew(obj) == obj

\* fn(t) of cubic_spline.py; t is the query after `t = [t]`, `t = np.array(t)`
FnNew(obj, t) ==
    LET size == Len(t)
        i == Force([q \in 1..size |-> SegmentNew(t[q], obj.t0)], size)
    IN  IF \E q \in 1..size : i[q] < 0 THEN FnRaise("IndexError", 130)
        ELSE IF size = 0 THEN FnRaise("IndexError", 131)
        ELSE LET ti == Force([q \in 1..size |->
                              RDiv(RSub(t[q], obj.t0[i[q] + 1]), obj.dt[i[q] + 1])],
                             size)
                 interp == Force([q \in 1..size |->
                                  Cubic(obj.coef[i[q] + 1], ti[q], obj.M)], size)
             IN  [exc |-> "none", at |-> 0, i |-> i, ti |-> ti,
                  ret |-> Collapse(interp, size, obj.M)]

\* Mutant of SegmentOld: the final point is not moved to the last segment
SegmentOld_NoClamp(t_val, n) == RTrunc(RScale(n - 1, t_val))

\* i and t_copy of CubicSpline.py for one query value: the truncated and the
\* fractional part of t*(N-1), with the final point moved to the last segment
SegmentOld(t_val, n) ==
    LET i == RTrunc(RScale(n - 1, t_val))
    IN  IF i = n - 1 THEN n - 2 ELSE i

\* Mutant of LocalOld: t_copy of the final point is not set to 1
LocalOld_NoClamp(t_val, n) ==
    LET t_copy == RScale(n - 1, t_val)
    IN  RSub(t_copy, FromInt(RFloor(t_copy)))

LocalOld(t_val, n) ==
    LET t_copy == RScale(n - 1, t_val)
    IN  IF RTrunc(t_copy) = n - 1 THEN One
        ELSE RSub(t_copy, FromInt(RFloor(t_copy)))

\* Mutant of CallerArrayOld: t is scaled in place (t *= N-1)
CallerArrayOld_InPlace(t, n) == Force([q \in 1..Len(t) |-> RScale(n - 1, t[q])], Len(t))

\* What fn of CubicSpline.py leaves in the caller's array t: np.array(t) is a
\* copy, and the writes through final_point go to the locals i and t_copy
CallerArrayOld(t, n) == t

\* What fn of CubicSpline.py leaves in self: it reads self.N, self.coef,
\* self.M and assigns no attribute
SelfAfterFnOld(obj) == obj

\* fn(t) of CubicSpline.py.  An index in -(N-1)..-1 counts from the end of
\* coef; an index outside -(N-1)..N-2 raises IndexError.
FnOld(obj, t) ==
    LET size == Len(t)
        i == Force([q \in 1..size |-> SegmentOld(t[q], obj.N)], size)
        ti == Force([q \in 1..size |-> LocalOld(t[q], obj.N)], size)
    IN  IF \E q \in 1..size : i[q] > obj.N - 2 \/ i[q] < -(obj.N - 1)
        THEN FnRaise("IndexError", 110)
        ELSE LET interp == Force([q \in 1..size |->
                                  Cubic(obj.coef[(IF i[q] < 0 THEN i[q] + obj.N - 1
                                                  ELSE i[q]) + 1],
                                        ti[q], obj.M)], size)
             IN  [exc |-> "none", at |-> 0, i |-> i, ti |-> ti,
                  ret |-> IF size = 0
                          THEN [shape |-> IF obj.M = 1 THEN <<0>> ELSE <<0, obj.M>>,
                                val |-> <<>>]
                          ELSE Collapse(interp, size, obj.M)]

\* Mutant of Linspace: the endpoint is left out (steps of 1/n)
Linspace_NoEndpoint(n) == Force([k \in 1..n |-> Rat(k - 1, n)], n)

\* np.linspace(0, 1, n)
Linspace(n) ==
    Force([k \in 1..n |-> IF n = 1 THEN Zero ELSE Rat(k - 1, n - 1)], n)


\* ------------------------------------------------------------ the inputs
\* Coordinate j of point i of the 2-d array grown from the column x: the
\* column itself, then its reverse, then shifted copies of both
Coord(x, n, i, j) ==
    IF j % 2 = 1 THEN x[i] + (j - 1) * i ELSE x[n + 1 - i] + (j - 2) * i

PointArrays ==
    UNION { UNION { {[rank |-> 1, data |-> Force(x, n)]}
                    \cup {[rank |-> 2,
                           data |-> Force([i \in 1..n |->
                                           Force([j \in 1..m |-> Coord(x, n, i, j)], m)],
                                          n)] : m \in 1..MaxM}
                  : x \in [1..n -> 0..MaxVal] }
          : n \in 2..MaxN }

NoDistances == [given |-> FALSE, val |-> <<>>]

\* distances=None, every vector of N-1 values, and a vector too short or too long
DistanceArgs(n) ==
    {NoDistances}
    \cup {[given |-> TRUE, val |-> Force(d, n - 1)] : d \in [1..(n - 1) -> 1..MaxDist]}
    \cup {[given |-> TRUE, val |-> Ones(n - 2)], [given |-> TRUE, val |-> Ones(n)]}

BcTypes == {"natural", "d_equal", "periodic"}

QGrid == {Rat(k, d) : k \in (-MaxQDen)..(2 * MaxQDen), d \in 1..MaxQDen}
ScalarQueries == {q \in QGrid : RLe(FromInt(-1), q) /\ RLe(q, FromInt(2))}

SeqVals == {Zero, <<1, 2>>, One}
SeqQueries == UNION {[1..k -> SeqVals] : k \in 0..MaxQLen}

\* ------------------------------------------------------ the state machine
VARIABLES
    impl,       \* which file's CubicSpline: "cubic_spline" or "CubicSpline"
    points,     \* the constructor's points argument
    distances,  \* the constructor's distances argument (cubic_spline only)
    bc_type,    \* the constructor's bc_type argument
    pc,         \* "new" before the constructor ran, then "built" or "failed"
    self,       \* the spline object; NoObject when the constructor raised
    exc,        \* the exception of the last operation, or "none"
    call,       \* the last method call and its argument
    i_loc,      \* fn's local i of the last call, one index per query value
    ti_loc,     \* fn's local parameter (ti, t_copy) of the last call
    ret,        \* what the last call returned
    exc_at,     \* the source line that raised exc, 0 when exc is "none"
    arg,        \* the caller's query array as the last call left it
    calls       \* how many fn and interpolate calls were made on the object

vars == <<impl, points, distances, bc_type, pc, self, exc, call, i_loc, ti_loc, ret,
          exc_at, arg, calls>>

NoCall == [op |-> "none", scalar |-> FALSE, t |-> <<>>, n |-> 0]

Init ==
    /\ impl \in {"cubic_spline", "CubicSpline"}
    /\ points \in PointArrays
    /\ distances \in (IF impl = "cubic_spline" THEN DistanceArgs(ShapeN(points))
                      ELSE {NoDistances})
    /\ bc_type \in BcTypes
    /\ pc = "new"
    /\ self = NoObject
    /\ exc = "none"
    /\ call = NoCall
    /\ i_loc = <<>>
    /\ ti_loc = <<>>
    /\ ret = NoReturn
    /\ exc_at = 0
    /\ arg = <<>>
    /\ calls = 0

Constructed(b) ==
    /\ pc' = IF b.exc = "none" THEN "built" ELSE "failed"
    /\ self' = b.obj
    /\ exc' = b.exc
    /\ exc_at' = b.at
    /\ UNCHANGED <<impl, points, distances, bc_type, call, i_loc, ti_loc, ret, arg, calls>>

ConstructNew ==
    /\ pc = "new"
    /\ impl = "cubic_spline"
    /\ Constructed(BuildNew(points, distances, bc_type))

ConstructOld ==
    /\ pc = "new"
    /\ impl = "CubicSpline"
    /\ Constructed(BuildOld(points, bc_type))

\* The call c returned (or raised) r, leaving `after` in self and `t` in the
\* caller's array
Returned(c, r, after, t) ==
    /\ call' = c
    /\ exc' = r.exc
    /\ exc_at' = r.at
    /\ i_loc' = r.i
    /\ ti_loc' = r.ti
    /\ ret' = r.ret
    /\ self' = after
    /\ arg' = t
    /\ calls' = calls + 1
    /\ UNCHANGED <<impl, points, distances, bc_type, pc>>

\* The scalar queries tried on a spline: the grid and the spline's own knots
KnotParams(obj) == {obj.t0[k] : k \in 1..Len(obj.t0)}

CallFnNew ==
    /\ pc = "built"
    /\ impl = "cubic_spline"
    /\ calls < MaxCalls
    /\ \/ \E q \in ScalarQueries \cup KnotParams(self) :
            Returned([op |-> "fn", scalar |-> TRUE, t |-> <<q>>, n |-> 0],
                     FnNew(self, <<q>>), SelfAfterFnNew(self), CallerArrayNew(<<q>>))
       \/ \E s \in SeqQueries :
            Returned([op |-> "fn", scalar |-> FALSE, t |-> Force(s, Len(s)), n |-> 0],
                     FnNew(self, s), SelfAfterFnNew(self),
                     CallerArrayNew(Force(s, Len(s))))

CallFnOld ==
    /\ pc = "built"
    /\ impl = "CubicSpline"
    /\ calls < MaxCalls
    /\ \/ \E q \in ScalarQueries :
            Returned([op |-> "fn", scalar |-> TRUE, t |-> <<q>>, n |-> 0],
                     FnOld(self, <<q>>), SelfAfterFnOld(self),
                     CallerArrayOld(<<q>>, self.N))
       \/ \E s \in SeqQueries :
            Returned([op |-> "fn", scalar |-> FALSE, t |-> Force(s, Len(s)), n |-> 0],
                     FnOld(self, s), SelfAfterFnOld(self),
                     CallerArrayOld(Force(s, Len(s)), self.N))

\* interpolate(n): t = np.linspace(0, 1, n); return self.fn(t), t
CallInterpolateNew ==
    /\ pc = "built"
    /\ impl = "cubic_spline"
    /\ calls < MaxCalls
    /\ \E n \in 0..MaxSamples :
         Returned([op |-> "interpolate", scalar |-> FALSE, t |-> Linspace(n), n |-> n],
                  FnNew(self, Linspace(n)), SelfAfterFnNew(self),
                  CallerArrayNew(Linspace(n)))

CallInterpolateOld ==
    /\ pc = "built"
    /\ impl = "CubicSpline"
    /\ calls < MaxCalls
    /\ \E n \in 0..MaxSamples :
         Returned([op |-> "interpolate", scalar |-> FALSE, t |-> Linspace(n), n |-> n],
                  FnOld(self, Linspace(n)), SelfAfterFnOld(self),
                  CallerArrayOld(Linspace(n), self.N))

Next ==
    \/ ConstructNew
    \/ ConstructOld
    \/ CallFnNew
    \/ CallFnOld
    \/ CallInterpolateNew
    \/ CallInterpolateOld

Spec == Init /\ [][Next]_vars


\* ------------------------------------------------- what the claims speak of
Built == pc = "built"
IsNew == impl = "cubic_spline"
NPoints == ShapeN(points)
NDims == ShapeM(points)

\* Input point k (0-based) as fn returns a point: a number when M = 1
InputPoint(k) ==
    IF NDims = 1 THEN FromInt(Points2D(points)[k + 1][1])
    ELSE Force([j \in 1..NDims |-> FromInt(Points2D(points)[k + 1][j])], NDims)

PointShape == IF NDims = 1 THEN <<>> ELSE <<NDims>>

\* The parameter of knot k (0-based), from the constructor's arguments: the
\* cumulative normalised spacing up to point k, k/(N-1) when uniform
KnotOf(k) ==
    IF distances.given
    THEN Rat(IntSum(distances.val, k), IntSum(distances.val, NPoints - 1))
    ELSE Rat(k, NPoints - 1)

ScalarFnCall == Built /\ call.op = "fn" /\ call.scalar
AnyFnCall == Built /\ call.op \in {"fn", "interpolate"}
InDomain(t) == RLe(Zero, t) /\ RLe(t, One)
AllInDomain == \A q \in 1..Len(call.t) : InDomain(call.t[q])
NonUniformInput == distances.given /\ \E k \in 1..Len(distances.val) :
                                         distances.val[k] # distances.val[1]

\* C1: for every successful construction (either file, either boundary
\* condition, with or without distances), fn(0) returns the first input point
\* and fn(1) returns the last input point.
C1_EndpointsReproduced ==
    (ScalarFnCall /\ call.t[1] \in {Zero, One}) =>
        /\ exc = "none"
        /\ ret.shape = PointShape
        /\ ret.val = InputPoint(IF call.t[1] = Zero THEN 0 ELSE NPoints - 1)

\* C1 witness: fn(1) on a three-point (or longer), two-dimensional spline with
\* unequal distances returned the last point, which differs from the first
C1_Witness ==
    /\ ScalarFnCall /\ IsNew /\ call.t[1] = One
    /\ NonUniformInput /\ NPoints >= 3 /\ NDims = 2
    /\ InputPoint(NPoints - 1) # InputPoint(0)
    /\ ret.val = InputPoint(NPoints - 1)

\* C2: for every knot index k in 0..N-1, fn at the knot's parameter returns
\* points[k].
C2_KnotsInterpolated ==
    ScalarFnCall =>
        \A k \in 0..(NPoints - 1) :
            call.t[1] = KnotOf(k) =>
                /\ exc = "none"
                /\ ret.shape = PointShape
                /\ ret.val = InputPoint(k)

\* C2 witness: fn at an interior knot that is not at k/(N-1) returned that
\* knot's point, which is not on the chord of its neighbours' first coordinate
C2_Witness ==
    /\ ScalarFnCall /\ IsNew /\ NonUniformInput /\ NDims = 1
    /\ \E k \in 1..(NPoints - 2) :
         /\ call.t[1] = KnotOf(k)
         /\ KnotOf(k) # Rat(k, NPoints - 1)
         /\ ret.val = InputPoint(k)
         /\ InputPoint(k) # InputPoint(k - 1)

\* C3: in both files a query value t = 1 is evaluated in the last segment,
\* index N-2, at local parameter 1, and in no other segment (scalar query or
\* member of a sequence query whose values all lie in [0,1]).
C3_FinalPointInLastSegment ==
    (AnyFnCall /\ AllInDomain) =>
        \A q \in 1..Len(call.t) :
            call.t[q] = One =>
                /\ exc = "none"
                /\ i_loc[q] = NPoints - 2
                /\ ti_loc[q] = One

\* C3 witness: the uniform-only file evaluated t = 1 in segment N-2, at local
\* parameter 1, of a spline through MaxN points
C3_Witness ==
    /\ ScalarFnCall /\ ~IsNew /\ call.t[1] = One /\ NPoints = MaxN
    /\ i_loc = <<NPoints - 2>> /\ ti_loc = <<One>>

\* C4: in cubic_spline.py every query value t with 0 <= t < 1 is evaluated in
\* the one segment i of 0..N-2 with start[i] <= t < start[i+1], at the local
\* parameter (t - start[i]) / dt[i], which lies in [0,1).
C4_SegmentLocalization ==
    (AnyFnCall /\ IsNew /\ AllInDomain) =>
        \A q \in 1..Len(call.t) :
            RLt(call.t[q], One) =>
                LET t == call.t[q]
                    i == i_loc[q]
                IN  /\ exc = "none"
                    /\ i \in 0..(NPoints - 2)
                    /\ RLe(KnotOf(i), t) /\ RLt(t, KnotOf(i + 1))
                    /\ \A k \in 0..(NPoints - 2) :
                         (RLe(KnotOf(k), t) /\ RLt(t, KnotOf(k + 1))) => k = i
                    /\ ti_loc[q] = RDiv(RSub(t, KnotOf(i)),
                                        RSub(KnotOf(i + 1), KnotOf(i)))
                    /\ RLe(Zero, ti_loc[q]) /\ RLt(ti_loc[q], One)

\* C4 witness: a query strictly inside a segment that is neither the first
\* nor the last one, of a spline with unequal distances
C4_Witness ==
    /\ ScalarFnCall /\ IsNew /\ NonUniformInput /\ exc = "none"
    /\ i_loc[1] \in 1..(NPoints - 3)
    /\ RLt(Zero, ti_loc[1]) /\ RLt(ti_loc[1], One)


\* The length of segment s (1-based) in the global parameter, and the
\* derivatives of its cubic in coordinate j with respect to that parameter
SegLen(s) == RSub(KnotOf(s), KnotOf(s - 1))
StartSlope(s, j) == RDiv(self.coef[s][j][2], SegLen(s))
EndSlope(s, j) ==
    RDiv(RAdd(RAdd(self.coef[s][j][2], RScale(2, self.coef[s][j][3])),
              RScale(3, self.coef[s][j][4])), SegLen(s))
StartSecond(s, j) == RDiv(RScale(2, self.coef[s][j][3]), RMul(SegLen(s), SegLen(s)))
EndSecond(s, j) ==
    RDiv(RAdd(RScale(2, self.coef[s][j][3]), RScale(6, self.coef[s][j][4])),
         RMul(SegLen(s), SegLen(s)))
Third(s, j) ==
    RDiv(RScale(6, self.coef[s][j][4]), RMul(SegLen(s), RMul(SegLen(s), SegLen(s))))

\* C5: at every interior knot k (1 <= k <= N-2) the slope at the end of
\* segment k-1 equals the slope at the start of segment k, in every
\* coordinate, for uniform and non-uniform spacing, in both files.
C5_SlopeContinuous ==
    Built =>
        \A k \in 1..(NPoints - 2) : \A j \in 1..NDims :
            EndSlope(k, j) = StartSlope(k + 1, j)

\* C5 witness: a built spline with two adjacent segments of different length
\* that meet with a slope that is not zero
C5_Witness ==
    /\ Built /\ IsNew /\ NonUniformInput /\ call.op = "none"
    /\ \E k \in 1..(NPoints - 2) :
         /\ SegLen(k) # SegLen(k + 1)
         /\ StartSlope(k + 1, 1) # Zero
         /\ EndSlope(k, 1) = StartSlope(k + 1, 1)

\* C6: with bc_type 'natural' the second derivative is zero at parameter 0
\* (start of segment 0) and at parameter 1 (end of segment N-2), in every
\* coordinate, for uniform and non-uniform spacing.
C6_NaturalEnds ==
    (Built /\ bc_type = "natural") =>
        \A j \in 1..NDims :
            /\ StartSecond(1, j) = Zero
            /\ EndSecond(NPoints - 1, j) = Zero

\* C6 witness: a natural spline with unequal distances whose first segment
\* bends (its cubic coefficient is not zero) though it starts with no curvature
C6_Witness ==
    /\ Built /\ IsNew /\ bc_type = "natural" /\ NonUniformInput /\ call.op = "none"
    /\ self.coef[1][1][4] # Zero
    /\ StartSecond(1, 1) = Zero
    /\ EndSecond(NPoints - 1, 1) = Zero

\* C7: with bc_type 'd_equal' (N >= 4) the third derivative of segment 0
\* equals that of segment 1 and the third derivative of segment N-3 equals
\* that of segment N-2, in every coordinate.
C7_DEqualThirdDerivatives ==
    (Built /\ bc_type = "d_equal" /\ NPoints >= 4) =>
        \A j \in 1..NDims :
            /\ Third(1, j) = Third(2, j)
            /\ Third(NPoints - 2, j) = Third(NPoints - 1, j)

\* C7 witness: a d_equal spline whose first two segments share a third
\* derivative that is not zero
C7_Witness ==
    /\ Built /\ IsNew /\ bc_type = "d_equal" /\ call.op = "none"
    /\ Third(1, 1) # Zero
    /\ Third(1, 1) = Third(2, 1)


\* The constructor of cubic_spline.py ran with N-1 explicit, equal distances
EqualDistancesGiven ==
    /\ pc # "new" /\ IsNew
    /\ distances.given /\ Len(distances.val) = NPoints - 1
    /\ \A k \in 1..Len(distances.val) : distances.val[k] = distances.val[1]

BcValidFor(bc, n) == bc = "natural" \/ (bc = "d_equal" /\ n >= 4)

\* The same points and bc_type built with no distances argument
BuiltWithoutDistances == BuildNew(points, NoDistances, bc_type)

C9_ShapeOfResult ==
    (Built /\ call.op = "fn" /\ exc = "none") =>
        ret.shape = (IF call.scalar THEN <<>> ELSE <<Len(call.t)>>) \o PointShape

\* interpolate(n) was called; call.t is the t it drew and returns
InterpolateCall == Built /\ call.op = "interpolate"

\* The scalar call fn(t) on the spline of the current state
FnAt(t) == IF IsNew THEN FnNew(self, <<t>>) ELSE FnOld(self, <<t>>)

\* interpolate(n) returned n points and n evenly spaced, strictly increasing
\* parameters from 0 to 1, point k being fn(t[k])
SampledEvenly(n) ==
    /\ exc = "none"
    /\ ret.shape = <<n>> \o PointShape
    /\ Len(call.t) = n
    /\ call.t[1] = Zero
    /\ call.t[n] = One
    /\ \A k \in 1..(n - 1) :
         /\ RLt(call.t[k], call.t[k + 1])
         /\ RSub(call.t[k + 1], call.t[k]) = RSub(call.t[2], call.t[1])
    /\ \A k \in 1..n :
         /\ FnAt(call.t[k]).exc = "none"
         /\ ret.val[k] = FnAt(call.t[k]).ret.val
    /\ ret.val[1] = FnAt(Zero).ret.val
    /\ ret.val[n] = FnAt(One).ret.val

\* C10 as stated: for every n >= 1, interpolate(n) returns n points and n
\* evenly spaced, strictly increasing parameters that start at 0 and end at
\* 1, point k being fn(t[k]).
C10_InterpolateFromOne ==
    (InterpolateCall /\ call.n >= 1) => SampledEvenly(call.n)

\* C10 amended: for every n >= 2, interpolate(n) returns n points and n
\* evenly spaced, strictly increasing parameters that start at 0 and end at
\* 1, point k being fn(t[k]); for n = 1 the only parameter is 0.
C10_InterpolateFromTwo ==
    /\ (InterpolateCall /\ call.n >= 2) => SampledEvenly(call.n)
    /\ (InterpolateCall /\ call.n = 1) => call.t = <<Zero>>

\* C10 witness: interpolate(3) on a two-dimensional spline with unequal
\* distances returned three different points
C10_Witness ==
    /\ InterpolateCall /\ IsNew /\ call.n = 3 /\ NonUniformInput /\ NDims = 2
    /\ exc = "none"
    /\ ret.val[1] # ret.val[2] /\ ret.val[2] # ret.val[3]
    /\ ret.val[2] = FnAt(<<1, 2>>).ret.val


\* ------------------------------------------------ errors of the constructor
ConstructorRan == pc # "new"
Failed == pc = "failed" /\ self = NoObject /\ exc # "none"
LengthValid == distances.given => Len(distances.val) = NPoints - 1

\* C11: a construction with a bc_type other than 'natural' and 'd_equal',
\* with no distances or with N-1 of them, fails with the ValueError of the
\* `raise ValueError('Unknown boundary condition type.')` statement and leaves
\* no spline object, for every point array, in both files.
C11_UnknownBcRejected ==
    (ConstructorRan /\ bc_type \notin {"natural", "d_equal"} /\ LengthValid) =>
        /\ Failed
        /\ exc = "ValueError"
        /\ exc_at = (IF IsNew THEN 85 ELSE 68)

\* C11 witness: 'periodic' with unequal distances of the right length on a
\* two-dimensional array of four points was rejected with ValueError
C11_Witness ==
    /\ ConstructorRan /\ IsNew /\ bc_type = "periodic"
    /\ NonUniformInput /\ LengthValid /\ NPoints = 4 /\ NDims = 2
    /\ Failed /\ exc = "ValueError"

\* C12: a construction with a distances vector whose length is not N-1 fails
\* with the AssertionError of line 55, before mat is allocated (line 60), and
\* leaves no spline object, whatever bc_type is; with a vector of length N-1
\* the construction never fails at line 55.
C12_DistancesLengthChecked ==
    (ConstructorRan /\ IsNew /\ distances.given) =>
        IF Len(distances.val) # NPoints - 1
        THEN Failed /\ exc = "AssertionError" /\ exc_at = 55
        ELSE exc_at # 55

\* C12 witness: N distances with the unknown bc_type 'periodic' failed at the
\* length assert, not at the ValueError
C12_Witness ==
    /\ ConstructorRan /\ IsNew /\ bc_type = "periodic"
    /\ distances.given /\ Len(distances.val) = NPoints
    /\ Failed /\ exc = "AssertionError" /\ exc_at = 55

\* The distances leave the points equally spaced: none given, or equal values
UniformSpacing ==
    ~distances.given \/ \A k \in 1..Len(distances.val) : distances.val[k] = distances.val[1]

C14_OffsetsReachOne ==
    (Built /\ IsNew) =>
        /\ RSum(self.dt, Len(self.dt)) = One
        /\ Len(self.t0) = NPoints
        /\ self.t0[1] = Zero
        /\ self.t0[NPoints] = One
        /\ \A k \in 1..(NPoints - 1) : RSub(self.t0[k + 1], self.t0[k]) = self.dt[k]

\* C14 amended: after construction dt has the N-1 normalised distances, which
\* sum to 1; t0 has length N-1 (one start offset per segment), starts at 0,
\* ends at 1 - dt[N-2], and t0[i+1] - t0[i] = dt[i] for i in 0..N-3.
C14_OffsetsOfSegmentStarts ==
    (Built /\ IsNew) =>
        /\ Len(self.dt) = NPoints - 1
        /\ \A k \in 1..(NPoints - 1) : self.dt[k] = SegLen(k)
        /\ RSum(self.dt, Len(self.dt)) = One
        /\ Len(self.t0) = NPoints - 1
        /\ self.t0[1] = Zero
        /\ self.t0[NPoints - 1] = RSub(One, self.dt[NPoints - 1])
        /\ \A k \in 1..(NPoints - 2) : RSub(self.t0[k + 1], self.t0[k]) = self.dt[k]

\* C14 witness: four points with unequal distances; the last of the three
\* offsets is below 1 by the last spacing, and the spacings differ
C14_Witness ==
    /\ Built /\ IsNew /\ NonUniformInput /\ NPoints = 4 /\ call.op = "none"
    /\ Len(self.t0) = 3
    /\ self.dt[1] # self.dt[3]
    /\ RLt(self.t0[3], One)
    /\ RAdd(self.t0[3], self.dt[3]) = One


\* ------------------------------------------------------ the frame of calls
\* The constructor run again on the same arguments
FreshlyBuilt ==
    IF IsNew THEN BuildNew(points, distances, bc_type) ELSE BuildOld(points, bc_type)

\* fn on the array t of the object obj
FnOf(obj, t) == IF IsNew THEN FnNew(obj, t) ELSE FnOld(obj, t)

C16_CurvatureContinuous ==
    Built =>
        \A k \in 1..(NPoints - 2) : \A j \in 1..NDims :
            EndSecond(k, j) = StartSecond(k + 1, j)

\* C16 witness: a built spline with two adjacent segments of different length
\* that meet with a second derivative that is not zero, while their quadratic
\* coefficients in the local parameters differ
C16_Witness ==
    /\ Built /\ IsNew /\ NonUniformInput /\ call.op = "none"
    /\ \E k \in 1..(NPoints - 2) :
         /\ SegLen(k) # SegLen(k + 1)
         /\ StartSecond(k + 1, 1) # Zero
         /\ EndSecond(k, 1) = StartSecond(k + 1, 1)
         /\ RAdd(self.coef[k][1][3], RScale(3, self.coef[k][1][4])) # self.coef[k + 1][1][3]


\* C17: fn does not extrapolate.  Whenever a call of fn with a query value
\* outside [0,1] returns, that value was evaluated in a segment 0..N-2 read
\* through its own index (no negative index counted from the end of coef) at
\* a local parameter inside [0,1], and a scalar query got the end point of
\* its side (the query was clamped); otherwise the call fails.
C17_NoExtrapolation ==
    (AnyFnCall /\ exc = "none") =>
        \A q \in 1..Len(call.t) :
            ~InDomain(call.t[q]) =>
                /\ i_loc[q] \in 0..(NPoints - 2)
                /\ InDomain(ti_loc[q])
                /\ call.scalar =>
                       ret.val = InputPoint(IF RLt(call.t[q], Zero) THEN 0 ELSE NPoints - 1)


\* ------------------------------------------------------- the two variants
\* The other file's constructor on the same points and bc_type, no distances
OtherBuilt ==
    IF IsNew THEN BuildOld(points, bc_type) ELSE BuildNew(points, NoDistances, bc_type)

\* The other file's fn on the array t of the object obj
OtherFnOf(obj, t) == IF IsNew THEN FnOld(obj, t) ELSE FnNew(obj, t)

=============================================================================
